---- MODULE Spec2Model ----
(***************************************************************************)
(* Model of bat-truckload.py: the Streamlit script that reads an uploaded  *)
(* spreadsheet, adds a "Tracking Status" column, summarises it by "Pickup  *)
(* Country" and offers both tables as one downloadable workbook.           *)
(*                                                                         *)
(* A DataFrame is [columns |-> sequence of column names,                   *)
(*                 rows    |-> sequence of functions column -> value].     *)
(* A worksheet is [header |-> sequence of names,                           *)
(*                 cells  |-> sequence of rows, each a sequence of cells]. *)
(* An optional value (None / a value) is a sequence of length 0 or 1.      *)
(***************************************************************************)
EXTENDS Integers, Sequences, FiniteSets, TLC

VARIABLES uploaded_file, df_raw, df_enriched, summary_df, excel_bytes,
          screen, pc, tie_order

vars == <<uploaded_file, df_raw, df_enriched, summary_df, excel_bytes,
          screen, pc, tie_order>>

----------------------------------------------------------------------------
(* Bounds of the model *)

\* rows of an uploaded sheet whose milestone cells follow SamplePatterns
MaxRows == 3
\* rows of an uploaded sheet whose milestone cells range over all 16 patterns
MaxRowsAll == 1

----------------------------------------------------------------------------
(* Program constants *)

MILESTONE_COLS ==
    << "Pickup Arrival Utc Timestamp Raw",
       "Pickup Departure Utc Timestamp Raw",
       "Dropoff Arrival Utc Timestamp Raw",
       "Dropoff Departure Utc Timestamp Raw" >>

PICKUP_COUNTRY_COL == "Pickup Country"

TRACKING_STATUS_COL == "Tracking Status"

STATUS_COLS == << "Fully Tracked", "Partially Tracked", "Untracked" >>

GRAND_TOTAL_COL == "Grand Total"

FULLY_PCT_COL == "Fully Tracked %"

AVAIL_PCT_COL == "Data Availability %"

\* DataFrame.head() keeps the first five rows
HEAD_ROWS == 5

----------------------------------------------------------------------------
(* Values *)

\* the missing value of pandas (an empty spreadsheet cell once parsed)
NaN == "NaN"

\* an empty spreadsheet cell
BLANK == ""

\* a recorded milestone timestamp
TIMESTAMP == "2024-01-01T00:00:00"

\* country values of the inputs, listed in their sort order
COUNTRY_VALUES == << "DE", "US" >>

\* the content of a "Tracking Status" column the upload already carries
STALE == "stale"

None == << >>

Some(v) == << v >>

Range(s) == { s[i] : i \in DOMAIN s }

isna(v) == v = NaN

notna(v) == v # NaN

IndexOf(s, x) == CHOOSE i \in DOMAIN s : s[i] = x

RECURSIVE SumSeq(_)
SumSeq(s) == IF s = << >> THEN 0 ELSE Head(s) + SumSeq(Tail(s))

Min(a, b) == IF a < b THEN a ELSE b

----------------------------------------------------------------------------
(* Spreadsheet <-> DataFrame conversions *)

\* columns that build_summary fills with numbers (never missing)
NumericCols == Range(STATUS_COLS) \cup {GRAND_TOTAL_COL, FULLY_PCT_COL, AVAIL_PCT_COL}

\* pd.read_excel: header row -> column names, an empty cell -> NaN
read_excel(sheet) ==
    [ columns |-> sheet.header,
      rows    |-> [ i \in DOMAIN sheet.cells |->
                      [ c \in Range(sheet.header) |->
                          LET v == sheet.cells[i][IndexOf(sheet.header, c)]
                          IN  IF c \in NumericCols THEN v
                              ELSE IF v = BLANK THEN NaN ELSE v ] ] ]

to_excel_reversed(df) ==
    LET n == Len(df.rows)
    IN  [ header |-> df.columns,
          cells  |-> [ i \in DOMAIN df.rows |->
                         [ j \in DOMAIN df.columns |->
                             LET c == df.columns[j]
                                 v == df.rows[n + 1 - i][c]
                             IN  IF c \in NumericCols THEN v
                                 ELSE IF isna(v) THEN BLANK ELSE v ] ] ]

\* DataFrame.to_excel(index=False): header row + one row per record, in order,
\* a missing value written as an empty cell
to_excel(df) ==
    [ header |-> df.columns,
      cells  |-> [ i \in DOMAIN df.rows |->
                     [ j \in DOMAIN df.columns |->
                         LET c == df.columns[j]
                             v == df.rows[i][c]
                         IN  IF c \in NumericCols THEN v
                             ELSE IF isna(v) THEN BLANK ELSE v ] ] ]

\* DataFrame.head()
head(df) == [ df EXCEPT !.rows = SubSeq(df.rows, 1, Min(HEAD_ROWS, Len(df.rows))) ]

----------------------------------------------------------------------------
(* compute_tracking_status *)

\* raising and returning: the outcome of a call
Raise(type, args) == [ raised |-> TRUE, exc |-> [ type |-> type, args |-> args ] ]

Return(v) == [ raised |-> FALSE, value |-> v ]

missing_cols_first(df) ==
    LET m == SelectSeq(MILESTONE_COLS, LAMBDA c : c \notin Range(df.columns))
    IN  IF m = << >> THEN m ELSE << Head(m) >>

\* missing_cols = [c for c in MILESTONE_COLS if c not in df.columns]
missing_cols(df) ==
    SelectSeq(MILESTONE_COLS, LAMBDA c : c \notin Range(df.columns))

status_row_any(row) ==
    LET vals == [ c \in Range(MILESTONE_COLS) |-> row[c] ]
    IN  IF \E c \in DOMAIN vals : isna(vals[c]) THEN "Untracked"
        ELSE IF \A c \in DOMAIN vals : notna(vals[c]) THEN "Fully Tracked"
        ELSE "Partially Tracked"

status_row(row) ==
    LET vals == [ c \in Range(MILESTONE_COLS) |-> row[c] ]
    IN  IF \A c \in DOMAIN vals : isna(vals[c]) THEN "Untracked"
        ELSE IF \A c \in DOMAIN vals : notna(vals[c]) THEN "Fully Tracked"
        ELSE "Partially Tracked"

\* df.apply(status_row, axis=1): one label per row, in row order
apply_status_row(df) == [ i \in DOMAIN df.rows |-> status_row(df.rows[i]) ]

set_item_milestones_only(df, col, values) ==
    [ columns |-> MILESTONE_COLS \o << col >>,
      rows    |-> [ i \in DOMAIN df.rows |->
                      [ c \in Range(MILESTONE_COLS) \cup {col} |->
                          IF c = col THEN values[i] ELSE df.rows[i][c] ] ] ]

\* df[col] = values: a new column is appended as the last one, an existing
\* column of that name is overwritten where it stands
set_item(df, col, values) ==
    [ columns |-> IF col \in Range(df.columns) THEN df.columns
                  ELSE Append(df.columns, col),
      rows    |-> [ i \in DOMAIN df.rows |->
                      [ c \in Range(df.columns) \cup {col} |->
                          IF c = col THEN values[i] ELSE df.rows[i][c] ] ] ]

\* The outcome of the call, and in .arg the caller's frame as the call leaves
\* it (the function works on df.copy()).
compute_tracking_status(df) ==
    IF missing_cols(df) # << >>
    THEN Raise("KeyError", missing_cols(df)) @@ [ arg |-> df ]
    ELSE Return(set_item(df, TRACKING_STATUS_COL, apply_status_row(df)))
           @@ [ arg |-> df ]

----------------------------------------------------------------------------
(* build_summary *)

\* labels a "Tracking Status" column holds, in their sort order
STATUS_VALUES == STATUS_COLS

groupby_rows_keepna(df) == df.rows

\* df.groupby(PICKUP_COUNTRY_COL): the rows that belong to a group. The
\* default dropna=True leaves out the rows whose key is missing.
groupby_rows(df) ==
    SelectSeq(df.rows, LAMBDA r : notna(r[PICKUP_COUNTRY_COL]))

\* sort order of the group keys (groupby's default sort=True); a missing key,
\* where one is kept, sorts last
KEY_ORDER == COUNTRY_VALUES \o << NaN >>

count_all_rows(rows, key, status) ==
    Cardinality({ i \in DOMAIN rows : rows[i][TRACKING_STATUS_COL] = status })

\* value_counts(): the number of the group's rows carrying the status
value_counts(rows, key, status) ==
    Cardinality({ i \in DOMAIN rows :
                    /\ rows[i][PICKUP_COUNTRY_COL] = key
                    /\ rows[i][TRACKING_STATUS_COL] = status })

\* groupby(...)["Tracking Status"].value_counts().unstack(fill_value=0):
\* one row per key in key order, one column per status observed anywhere,
\* 0 where the group has no record of the status
unstack(df) ==
    LET rows == groupby_rows(df)
        keys == SelectSeq(KEY_ORDER,
                    LAMBDA k : \E i \in DOMAIN rows : rows[i][PICKUP_COUNTRY_COL] = k)
        cols == SelectSeq(STATUS_VALUES,
                    LAMBDA s : \E i \in DOMAIN rows : rows[i][TRACKING_STATUS_COL] = s)
    IN  [ index   |-> keys,
          columns |-> cols,
          data    |-> [ k \in Range(keys) |->
                          [ s \in Range(cols) |-> value_counts(rows, k, s) ] ] ]

\* for col in [...]: if col not in summary.columns: summary[col] = 0
\* summary = summary[["Fully Tracked", "Partially Tracked", "Untracked"]]
ensure_status_cols(summary) ==
    [ index   |-> summary.index,
      columns |-> STATUS_COLS,
      data    |-> [ k \in Range(summary.index) |->
                      [ s \in Range(STATUS_COLS) |->
                          IF s \in Range(summary.columns)
                          THEN summary.data[k][s] ELSE 0 ] ] ]

grand_total_two(counts) == counts["Fully Tracked"] + counts["Partially Tracked"]

\* summary[["Fully Tracked", "Partially Tracked", "Untracked"]].sum(axis=1)
grand_total(counts) ==
    SumSeq([ j \in DOMAIN STATUS_COLS |-> counts[STATUS_COLS[j]] ])

\* a / b in floating point, kept exact as the fraction num/den
TrueDiv(a, b) == [ num |-> a, den |-> b ]

Times(q, n) == [ num |-> q.num * n, den |-> q.den ]

\* q1 <= q2 for fractions of positive denominator
FracLeq(q1, q2) == q1.num * q2.den <= q2.num * q1.den

fully_tracked_ratio(row) == TrueDiv(row["Fully Tracked"], row[GRAND_TOTAL_COL])

data_availability_ratio_partial(row) ==
    TrueDiv(row["Partially Tracked"], row[GRAND_TOTAL_COL])

\* (summary["Fully Tracked"] + summary["Partially Tracked"]) / summary["Grand Total"]
data_availability_ratio(row) ==
    TrueDiv(row["Fully Tracked"] + row["Partially Tracked"], row[GRAND_TOTAL_COL])

\* the builds of the sort: sort_values uses the default kind "quicksort",
\* which is not stable, so rows of equal "Grand Total" come out in an order
\* the build decides: as they stood, or the other way round
TIE_ORDERS == { "kept", "reversed" }

sort_values_ascending(rows, ties) ==
    SortSeq(rows, LAMBDA a, b :
        \/ a[GRAND_TOTAL_COL] < b[GRAND_TOTAL_COL]
        \/ /\ a[GRAND_TOTAL_COL] = b[GRAND_TOTAL_COL]
           /\ IF ties = "kept" THEN a.pos < b.pos ELSE a.pos > b.pos)

\* summary.sort_values("Grand Total", ascending=False); each row carries in
\* .pos its position before the sort
sort_values(rows, ties) ==
    SortSeq(rows, LAMBDA a, b :
        \/ a[GRAND_TOTAL_COL] > b[GRAND_TOTAL_COL]
        \/ /\ a[GRAND_TOTAL_COL] = b[GRAND_TOTAL_COL]
           /\ IF ties = "kept" THEN a.pos < b.pos ELSE a.pos > b.pos)

SUMMARY_COLS ==
    << PICKUP_COUNTRY_COL >> \o STATUS_COLS
        \o << GRAND_TOTAL_COL, FULLY_PCT_COL, AVAIL_PCT_COL >>

build_summary(df, ties) ==
    IF PICKUP_COUNTRY_COL \notin Range(df.columns)
    THEN Raise("KeyError", << PICKUP_COUNTRY_COL >>)
    ELSE
      LET summary == ensure_status_cols(unstack(df))
          total(k) == grand_total(summary.data[k])
          withTotal == [ i \in DOMAIN summary.index |->
                           LET k == summary.index[i]
                           IN  summary.data[k] @@ (GRAND_TOTAL_COL :> total(k))
                                 @@ [ key |-> k, pos |-> i ] ]
          withRatio == [ i \in DOMAIN withTotal |->
                           withTotal[i]
                             @@ (FULLY_PCT_COL :> fully_tracked_ratio(withTotal[i]))
                             @@ (AVAIL_PCT_COL :> data_availability_ratio(withTotal[i])) ]
          sorted == sort_values(withRatio, ties)
      IN  Return(
            [ columns |-> SUMMARY_COLS,
              rows    |-> [ i \in DOMAIN sorted |->
                              [ c \in Range(SUMMARY_COLS) |->
                                  IF c = PICKUP_COUNTRY_COL THEN sorted[i].key
                                  ELSE IF c \in {FULLY_PCT_COL, AVAIL_PCT_COL}
                                       THEN Times(sorted[i][c], 100)
                                  ELSE sorted[i][c] ] ] ])

----------------------------------------------------------------------------
(* create_output_excel *)

\* the workbook: sheet name -> worksheet
create_output_excel(enriched, summary) ==
    ("Enriched Data" :> to_excel(enriched)) @@ ("Summary" :> to_excel(summary))

----------------------------------------------------------------------------
(* The uploads *)

\* a milestone pattern: which of the four milestone cells are filled
AllPatterns == [ DOMAIN MILESTONE_COLS -> { BLANK, TIMESTAMP } ]

\* all filled, none filled, arrivals only
SamplePatterns ==
    { [ j \in DOMAIN MILESTONE_COLS |-> TIMESTAMP ],
      [ j \in DOMAIN MILESTONE_COLS |-> BLANK ],
      [ j \in DOMAIN MILESTONE_COLS |-> IF j % 2 = 1 THEN TIMESTAMP ELSE BLANK ] }

CountryCells == Range(COUNTRY_VALUES) \cup { BLANK }

\* the header rows: any of the milestone columns, with or without the country
\* column and a "Tracking Status" column of the upload's own
Headers ==
    { (IF hasCountry THEN << PICKUP_COUNTRY_COL >> ELSE << >>)
        \o SelectSeq(MILESTONE_COLS, LAMBDA c : c \in present)
        \o (IF hasStatus THEN << TRACKING_STATUS_COL >> ELSE << >>) :
      present \in SUBSET Range(MILESTONE_COLS),
      hasCountry \in BOOLEAN, hasStatus \in BOOLEAN }

SheetRows(header, patterns) ==
    { [ j \in DOMAIN header |->
          IF header[j] = PICKUP_COUNTRY_COL THEN k
          ELSE IF header[j] = TRACKING_STATUS_COL THEN STALE
          ELSE p[IndexOf(MILESTONE_COLS, header[j])] ] :
      p \in patterns, k \in CountryCells }

SheetsOf(header, patterns, maxRows) ==
    { [ header |-> header, cells |-> cells ] :
      cells \in UNION { [ 1..n -> SheetRows(header, patterns) ] :
                        n \in 0..(IF header = << >> THEN 0 ELSE maxRows) } }

\* Every header with short tables over all patterns; the longer tables only
\* under the headers that pass the milestone column check, the others' rows
\* never being read.
Sheets ==
    UNION { SheetsOf(h, AllPatterns, MaxRowsAll)
              \cup (IF Range(MILESTONE_COLS) \subseteq Range(h)
                    THEN SheetsOf(h, SamplePatterns, MaxRows) ELSE { }) :
            h \in Headers }

\* an uploaded payload: a workbook's first sheet, or bytes that are no workbook
Files ==
    { [ wellFormed |-> TRUE, sheet |-> s ] : s \in Sheets }
      \cup { [ wellFormed |-> FALSE, sheet |-> [ header |-> << >>, cells |-> << >> ] ] }

----------------------------------------------------------------------------
(* The script *)

BlankScreen ==
    [ info |-> FALSE, raw_preview |-> None, enriched_preview |-> None,
      summary |-> None, download |-> None, errors |-> << >> ]

on_exception_silent(scr, exc) == scr

\* except KeyError as e: st.error(f"Column error: {e}")
\* except Exception as e: st.error(f"Something went wrong ...: {e}")
on_exception(scr, exc) ==
    [ scr EXCEPT !.errors =
        Append(@, [ text |-> IF exc.type = "KeyError" THEN "Column error"
                             ELSE "Something went wrong while processing the file",
                    e    |-> exc ]) ]

Init ==
    /\ uploaded_file = None
    /\ df_raw = None
    /\ df_enriched = None
    /\ summary_df = None
    /\ excel_bytes = None
    /\ screen = BlankScreen
    /\ pc = "start"
    /\ tie_order \in TIE_ORDERS

\* no file yet: st.info("Please upload your Excel file to begin.")
NoUpload ==
    /\ pc = "start"
    /\ uploaded_file = None
    /\ screen' = [ screen EXCEPT !.info = TRUE ]
    /\ pc' = "waiting"
    /\ UNCHANGED << uploaded_file, df_raw, df_enriched, summary_df, excel_bytes, tie_order >>

\* the user picks a file: the script runs again from the top, on a blank page
Upload ==
    /\ pc = "waiting"
    /\ \E f \in Files : uploaded_file' = Some(f)
    /\ screen' = BlankScreen
    /\ pc' = "read"
    /\ UNCHANGED << df_raw, df_enriched, summary_df, excel_bytes, tie_order >>

\* df_raw = pd.read_excel(uploaded_file); st.dataframe(df_raw.head())
ReadExcel ==
    /\ pc = "read"
    /\ LET f == uploaded_file[1]
       IN  IF f.wellFormed
           THEN /\ df_raw' = Some(read_excel(f.sheet))
                /\ screen' = [ screen EXCEPT !.raw_preview = Some(head(read_excel(f.sheet))) ]
                /\ pc' = "classify"
           ELSE /\ df_raw' = df_raw
                /\ screen' = on_exception(screen, [ type |-> "Exception", args |-> << >> ])
                /\ pc' = "failed"
    /\ UNCHANGED << uploaded_file, df_enriched, summary_df, excel_bytes, tie_order >>

\* df_enriched = compute_tracking_status(df_raw); st.dataframe(df_enriched.head())
\* On a frame without rows DataFrame.apply calls status_row on no row, and what
\* it hands back for the new column depends on the pandas release: an empty
\* column, or a frame the assignment refuses.
ComputeTrackingStatus ==
    /\ pc = "classify"
    /\ LET r == compute_tracking_status(df_raw[1])
       IN  \E refused \in IF ~r.raised /\ df_raw[1].rows = << >> THEN BOOLEAN ELSE { FALSE } :
             /\ df_raw' = Some(r.arg)
             /\ IF r.raised \/ refused
                THEN /\ df_enriched' = df_enriched
                     /\ screen' = on_exception(screen,
                                    IF r.raised THEN r.exc
                                    ELSE [ type |-> "Exception", args |-> << >> ])
                     /\ pc' = "failed"
                ELSE /\ df_enriched' = Some(r.value)
                     /\ screen' = [ screen EXCEPT !.enriched_preview = Some(head(r.value)) ]
                     /\ pc' = "summarize"
    /\ UNCHANGED << uploaded_file, summary_df, excel_bytes, tie_order >>

\* summary_df = build_summary(df_enriched); st.dataframe(summary_df)
BuildSummary ==
    /\ pc = "summarize"
    /\ LET r == build_summary(df_enriched[1], tie_order)
       IN  IF r.raised
           THEN /\ summary_df' = summary_df
                /\ screen' = on_exception(screen, r.exc)
                /\ pc' = "failed"
           ELSE /\ summary_df' = Some(r.value)
                /\ screen' = [ screen EXCEPT !.summary = Some(r.value) ]
                /\ pc' = "write"
    /\ UNCHANGED << uploaded_file, df_raw, df_enriched, excel_bytes, tie_order >>

\* excel_bytes = create_output_excel(df_enriched, summary_df); st.download_button(...)
\* The writer may raise (a cell openpyxl refuses to write, no memory).
CreateOutputExcel ==
    /\ pc = "write"
    /\ \E raises \in BOOLEAN :
         IF raises
         THEN /\ excel_bytes' = excel_bytes
              /\ screen' = on_exception(screen, [ type |-> "Exception", args |-> << >> ])
              /\ pc' = "failed"
         ELSE /\ excel_bytes' = Some(create_output_excel(df_enriched[1], summary_df[1]))
              /\ screen' = [ screen EXCEPT !.download =
                               Some(create_output_excel(df_enriched[1], summary_df[1])) ]
              /\ pc' = "done"
    /\ UNCHANGED << uploaded_file, df_raw, df_enriched, summary_df, tie_order >>

Next ==
    \/ NoUpload
    \/ Upload
    \/ ReadExcel
    \/ ComputeTrackingStatus
    \/ BuildSummary
    \/ CreateOutputExcel

Spec == Init /\ [][Next]_vars

----------------------------------------------------------------------------
(* Properties *)

\* the number of milestone fields of a record that are recorded
Recorded(row) ==
    Cardinality({ j \in DOMAIN MILESTONE_COLS : row[MILESTONE_COLS[j]] # NaN })

SameMilestones(r1, r2) ==
    \A j \in DOMAIN MILESTONE_COLS : r1[MILESTONE_COLS[j]] = r2[MILESTONE_COLS[j]]

\* the frame the upload parses to
Parsed == read_excel(uploaded_file[1].sheet)

\* C1: every record gets exactly one of the three labels: Fully Tracked iff
\* all four milestone fields are recorded, Untracked iff none is, Partially
\* Tracked otherwise; records with the same milestone fields get the same
\* label whatever their other fields and the other rows.
C1_LabelByMilestones ==
    df_enriched # None =>
        LET e == df_enriched[1].rows
            r == df_raw[1].rows
        IN  /\ Len(e) = Len(r)
            /\ \A i \in DOMAIN e :
                 LET s == e[i][TRACKING_STATUS_COL]
                 IN  /\ s \in Range(STATUS_COLS)
                     /\ (s = "Fully Tracked") <=> (Recorded(r[i]) = Len(MILESTONE_COLS))
                     /\ (s = "Untracked") <=> (Recorded(r[i]) = 0)
                     /\ (s = "Partially Tracked")
                          <=> (Recorded(r[i]) \in 1..(Len(MILESTONE_COLS) - 1))
            /\ \A i, j \in DOMAIN e :
                 SameMilestones(r[i], r[j])
                    => e[i][TRACKING_STATUS_COL] = e[j][TRACKING_STATUS_COL]

\* two partially tracked records of different countries in one table
C1_Witness ==
    /\ df_enriched # None
    /\ \E i, j \in DOMAIN df_enriched[1].rows :
         LET e == df_enriched[1].rows
         IN  /\ i # j
             /\ PICKUP_COUNTRY_COL \in DOMAIN e[i]
             /\ e[i][PICKUP_COUNTRY_COL] # e[j][PICKUP_COUNTRY_COL]
             /\ e[i][TRACKING_STATUS_COL] = "Partially Tracked"
             /\ e[j][TRACKING_STATUS_COL] = "Partially Tracked"

\* the country column's values over the rows, and over the rows that have one
CountriesOf(rows) == { rows[i][PICKUP_COUNTRY_COL] : i \in DOMAIN rows }

KnownCountryRows(rows) == { i \in DOMAIN rows : rows[i][PICKUP_COUNTRY_COL] # NaN }

\* the row at which a country value is first met
FirstSeen(rows, k) ==
    CHOOSE i \in DOMAIN rows :
        /\ rows[i][PICKUP_COUNTRY_COL] = k
        /\ \A j \in 1..(i - 1) : rows[j][PICKUP_COUNTRY_COL] # k

GrandTotals(rows) == [ i \in DOMAIN rows |-> rows[i][GRAND_TOTAL_COL] ]

\* C2 as claimed: the Summary Rows are in descending Grand Total order and,
\* among rows of equal Grand Total, in the order their country was first met.
\* Stated for the builds whose sort keeps rows of equal Grand Total as they
\* stood, where the claim has its best case.
C2_FirstSeenTieBreak ==
    (summary_df # None /\ tie_order = "kept") =>
        LET s == summary_df[1].rows
            e == df_enriched[1].rows
        IN  \A i, j \in DOMAIN s :
              i < j =>
                \/ s[i][GRAND_TOTAL_COL] > s[j][GRAND_TOTAL_COL]
                \/ /\ s[i][GRAND_TOTAL_COL] = s[j][GRAND_TOTAL_COL]
                   /\ FirstSeen(e, s[i][PICKUP_COUNTRY_COL])
                        < FirstSeen(e, s[j][PICKUP_COUNTRY_COL])

\* C2 amended: the Summary Rows are in descending Grand Total order (the order
\* among rows of equal Grand Total is not that of first appearance).
C2_GrandTotalDescending ==
    summary_df # None =>
        LET s == summary_df[1].rows
        IN  \A i, j \in DOMAIN s :
              i < j => s[i][GRAND_TOTAL_COL] >= s[j][GRAND_TOTAL_COL]

\* the sort had to move a row: the first key in key order has the smaller total
C2_Witness ==
    /\ summary_df # None
    /\ Len(summary_df[1].rows) = 2
    /\ summary_df[1].rows[1][PICKUP_COUNTRY_COL] = COUNTRY_VALUES[2]
    /\ summary_df[1].rows[1][GRAND_TOTAL_COL] > summary_df[1].rows[2][GRAND_TOTAL_COL]

\* C3 as claimed: one Summary Row per distinct country value of the input, a
\* missing country value being a group of its own, so that the Grand Totals
\* add up to the number of input records. Stated for the inputs that have
\* some record with a country value.
C3_NullCountryGrouped ==
    (summary_df # None /\ KnownCountryRows(df_enriched[1].rows) # { }) =>
        LET s == summary_df[1].rows
            e == df_enriched[1].rows
        IN  /\ CountriesOf(s) = CountriesOf(e)
            /\ Len(s) = Cardinality(CountriesOf(e))
            /\ SumSeq(GrandTotals(s)) = Len(e)

\* C3 amended: one Summary Row per distinct non-missing country value; the
\* records without a country value are left out, and the Grand Totals add up
\* to the number of records that have one.
C3_NullCountryDropped ==
    summary_df # None =>
        LET s == summary_df[1].rows
            e == df_enriched[1].rows
        IN  /\ CountriesOf(s) = CountriesOf(e) \ { NaN }
            /\ Len(s) = Cardinality(CountriesOf(e) \ { NaN })
            /\ SumSeq(GrandTotals(s)) = Cardinality(KnownCountryRows(e))

\* a summary of records with and records without a country value
C3_Witness ==
    /\ summary_df # None
    /\ NaN \in CountriesOf(df_enriched[1].rows)
    /\ Len(summary_df[1].rows) >= 1
    /\ Cardinality(KnownCountryRows(df_enriched[1].rows)) < Len(df_enriched[1].rows)

MissingMilestones(df) == Range(MILESTONE_COLS) \ Range(df.columns)

\* C4: an input lacking milestone columns fails in compute_tracking_status
\* with one column error naming every missing milestone column, and the run
\* has no enriched table, no summary and no download.
C4_MissingColumnsFail ==
    (df_raw # None /\ pc # "classify" /\ MissingMilestones(df_raw[1]) # { }) =>
        /\ pc = "failed"
        /\ Len(screen.errors) = 1
        /\ screen.errors[1].text = "Column error"
        /\ screen.errors[1].e.type = "KeyError"
        /\ Range(screen.errors[1].e.args) = MissingMilestones(df_raw[1])
        /\ df_enriched = None /\ summary_df = None /\ excel_bytes = None
        /\ screen.enriched_preview = None
        /\ screen.summary = None
        /\ screen.download = None

\* a table with rows that lacks two or more milestone columns has failed
C4_Witness ==
    /\ pc = "failed"
    /\ df_raw # None
    /\ Cardinality(MissingMilestones(df_raw[1])) >= 2
    /\ Len(df_raw[1].rows) >= 1
    /\ Len(screen.errors) = 1

\* C5 as claimed: once a stage has failed there is a single error message and
\* nothing else of the run on the page: no raw preview, no enriched preview,
\* no summary, no download. Stated for the case the claim singles out, the
\* failure in build_summary.
C5_NothingShownOnFailure ==
    (pc = "failed" /\ df_enriched # None /\ summary_df = None) =>
        /\ Len(screen.errors) = 1
        /\ screen.raw_preview = None
        /\ screen.enriched_preview = None
        /\ screen.summary = None
        /\ screen.download = None

Shown(frame) == IF frame = None THEN None ELSE Some(head(frame[1]))

\* C5 amended: once a stage has failed there is a single error message, no
\* download and nothing of the failed or a later stage, but what the stages
\* before it displayed stays: the raw preview once the file was parsed, the
\* enriched preview once the rows were classified (so both when the country
\* column is missing), the summary once it was built.
C5_EarlierStagesStayShown ==
    pc = "failed" =>
        /\ Len(screen.errors) = 1
        /\ screen.download = None /\ excel_bytes = None
        /\ screen.raw_preview = Shown(df_raw)
        /\ screen.enriched_preview = Shown(df_enriched)
        /\ screen.summary = summary_df
        /\ summary_df # None => df_enriched # None
        /\ df_enriched # None => df_raw # None
        /\ (df_enriched # None /\ PICKUP_COUNTRY_COL \notin Range(df_enriched[1].columns))
             => /\ summary_df = None
                /\ screen.raw_preview # None
                /\ screen.enriched_preview # None

\* the run failed in build_summary, the country column missing
C5_Witness ==
    /\ pc = "failed"
    /\ df_enriched # None
    /\ Len(df_enriched[1].rows) >= 1
    /\ PICKUP_COUNTRY_COL \notin Range(df_enriched[1].columns)
    /\ summary_df = None

\* C6: in every Summary Row the three status counts add up to the Grand
\* Total, which is at least 1.
C6_CountsSumToGrandTotal ==
    summary_df # None =>
        \A i \in DOMAIN summary_df[1].rows :
            LET row == summary_df[1].rows[i]
            IN  /\ row["Fully Tracked"] + row["Partially Tracked"] + row["Untracked"]
                     = row[GRAND_TOTAL_COL]
                /\ row[GRAND_TOTAL_COL] >= 1

\* a Summary Row counting records of all three statuses
C6_Witness ==
    /\ summary_df # None
    /\ \E i \in DOMAIN summary_df[1].rows :
         \A s \in Range(STATUS_COLS) : summary_df[1].rows[i][s] >= 1

Percent(n) == [ num |-> n, den |-> 1 ]

\* C7: in every Summary Row 0 <= Fully Tracked % <= Data Availability % <= 100.
C7_PercentagesOrdered ==
    summary_df # None =>
        \A i \in DOMAIN summary_df[1].rows :
            LET row == summary_df[1].rows[i]
            IN  /\ row[FULLY_PCT_COL].den >= 1
                /\ row[AVAIL_PCT_COL].den >= 1
                /\ FracLeq(Percent(0), row[FULLY_PCT_COL])
                /\ FracLeq(row[FULLY_PCT_COL], row[AVAIL_PCT_COL])
                /\ FracLeq(row[AVAIL_PCT_COL], Percent(100))

\* a summary of one row with 0 < Fully Tracked % < Data Availability % < 100
C7_Witness ==
    /\ summary_df # None
    /\ Len(summary_df[1].rows) = 1
    /\ LET row == summary_df[1].rows[1]
       IN  /\ ~ FracLeq(row[FULLY_PCT_COL], Percent(0))
           /\ ~ FracLeq(row[AVAIL_PCT_COL], row[FULLY_PCT_COL])
           /\ ~ FracLeq(Percent(100), row[AVAIL_PCT_COL])

C9_CountsPerGroupAndStatus ==
    summary_df # None =>
        LET e == df_enriched[1].rows
        IN  /\ Range(STATUS_COLS) \subseteq Range(summary_df[1].columns)
            /\ \A i \in DOMAIN summary_df[1].rows :
                 LET row == summary_df[1].rows[i]
                 IN  \A s \in Range(STATUS_COLS) :
                       /\ s \in DOMAIN row
                       /\ row[s] = Cardinality({ n \in DOMAIN e :
                                     /\ e[n][PICKUP_COUNTRY_COL] = row[PICKUP_COUNTRY_COL]
                                     /\ e[n][TRACKING_STATUS_COL] = s })

\* two country groups, and a status no record of the input has
C9_Witness ==
    /\ summary_df # None
    /\ Len(summary_df[1].rows) = 2
    /\ \E s \in Range(STATUS_COLS) :
         /\ \A n \in DOMAIN df_enriched[1].rows :
              df_enriched[1].rows[n][TRACKING_STATUS_COL] # s
         /\ \A i \in DOMAIN summary_df[1].rows : summary_df[1].rows[i][s] = 0

\* C10 as claimed: in the result every original field of every record has its
\* original value, in the input's row order, also when the input has a
\* "Tracking Status" column of its own; the caller's table is unchanged.
C10_AllOriginalFieldsKept ==
    df_enriched # None =>
        LET e == df_enriched[1]
        IN  /\ df_raw[1] = Parsed
            /\ Range(Parsed.columns) \subseteq Range(e.columns)
            /\ Len(e.rows) = Len(Parsed.rows)
            /\ \A i \in DOMAIN e.rows : \A c \in Range(Parsed.columns) :
                 e.rows[i][c] = Parsed.rows[i][c]

\* C10 amended: in the result every original field other than a "Tracking
\* Status" column of the input's own has its original value, in the input's
\* row order; "Tracking Status" is appended as the last column, or, where the
\* input has such a column, overwritten in place; the caller's table is
\* unchanged.
C10_OtherFieldsKept ==
    df_enriched # None =>
        LET e == df_enriched[1]
        IN  /\ df_raw[1] = Parsed
            /\ e.columns = IF TRACKING_STATUS_COL \in Range(Parsed.columns)
                           THEN Parsed.columns
                           ELSE Parsed.columns \o << TRACKING_STATUS_COL >>
            /\ Len(e.rows) = Len(Parsed.rows)
            /\ \A i \in DOMAIN e.rows :
                 /\ DOMAIN e.rows[i] = Range(e.columns)
                 /\ \A c \in Range(Parsed.columns) \ { TRACKING_STATUS_COL } :
                      e.rows[i][c] = Parsed.rows[i][c]

\* an input of two different records that has a country column and a
\* "Tracking Status" column of its own
C10_Witness ==
    /\ df_enriched # None
    /\ TRACKING_STATUS_COL \in Range(Parsed.columns)
    /\ PICKUP_COUNTRY_COL \in Range(Parsed.columns)
    /\ Len(Parsed.rows) = 2
    /\ Parsed.rows[1] # Parsed.rows[2]
    /\ df_enriched[1].rows[1][TRACKING_STATUS_COL] # STALE

====
